---- MODULE Spec2Model ----
(***************************************************************************)
(* Model of the desktop launcher of the price scanner (src/launcher.py):   *)
(* ActivityLogger, DatabaseMonitor, ServerManager and the parts of         *)
(* PriceScannerGUI that read their status.                                 *)
(*                                                                         *)
(* Threads are CPython threads: one bytecode-level read or write of an     *)
(* attribute, and one list.append, is atomic; a statement made of several  *)
(* of them is several steps.                                               *)
(***************************************************************************)
EXTENDS Integers, Sequences, FiniteSets, TLC

(* ------------------------------ bounds --------------------------------- *)

\* largest max_entries an ActivityLogger is constructed with
MaxCapacity == 3

\* number of add_activity calls made by the producers of the logger harness
MaxCalls == 3

\* number of producer threads of the logger harness
NProducers == 2

\* number of callbacks registered with add_callback in the logger harness
MaxCallbacks == 2

\* number of check_connection calls made in the monitor harness
MaxChecks == 5

\* number of threads calling start_server in the server harness
NStarters == 2

\* number of start_server calls made in the server harness
MaxStarts == 2

\* number of checks made after which the poll thread starts no further one
MaxPolls == 1

\* number of checks made after which the poll thread of the loop harness
\* starts no further one
MaxLoopPolls == 3

\* number of clicks on Retry Connection
MaxRetries == 1

\* number of threads calling start_monitoring and stop_monitoring in the
\* monitor control harness
NControllers == 2

\* number of poll threads start_monitoring can spawn in that harness
NPollers == 2

\* number of requests the browser session sends to main.py
MaxRequests == 4

(* ------------------------------ state ---------------------------------- *)

VARIABLES
    clock,          \* datetime.now(): a logical clock, read and advanced
    max_entries,    \* ActivityLogger.max_entries
    activities,     \* ActivityLogger.activities
    callbacks,      \* ActivityLogger.callbacks
    received,       \* per callback, the entries it has been invoked with
    calls,          \* history: the entry of every add_activity call, in call order
    hist,           \* history: every entry in the order list.append took effect
    afterq,         \* Tk's queue of root.after(0, ...) callbacks not yet run
    pc,             \* per thread, its position
    activity,       \* add_activity's local `activity`, per thread
    kept,           \* add_activity's value of self.activities[-max_entries:], per thread
    cbi,            \* add_activity's position in `for callback in self.callbacks`
    recent,         \* the list the last get_recent call returned
    asked,          \* the count the last get_recent call was given
    readAt,         \* history: how many calls had been made at that get_recent
    is_connected,   \* DatabaseMonitor.is_connected
    last_check,     \* DatabaseMonitor.last_check
    probed,         \* check_connection's outcome of test_connection(), per thread
    results,        \* history: what each check_connection call returned, in order
    is_running,     \* ServerManager.is_running
    ssl_enabled,    \* ServerManager.ssl_enabled
    local_ip,       \* ServerManager.local_ip
    server_thread,  \* ServerManager.server_thread: index into servers, 0 for None
    servers,        \* every server thread spawned: its arguments and how far it got
    key_pem,        \* whether the file key.pem exists
    cert_pem,       \* whether the file cert.pem exists
    tls_args,       \* start_server's locals ssl_keyfile and ssl_certfile, per thread
    returned,       \* what the thread's last start_server call returned
    starts,         \* history: number of start_server calls made
    monitoring,     \* DatabaseMonitor.monitoring
    monitor_thread, \* DatabaseMonitor.monitor_thread: the poll thread, or None
    destroyed,      \* root.destroy() has been called
    exited,         \* os._exit(0) has been called
    timers,         \* number of pending root.after(5000, update_db_status)
    server_status,  \* text of the label server_status
    db_status,      \* text of the label db_status
    local_url_label,    \* text of the label local_url_label
    network_url_label,  \* text of the label network_url_label
    activity_text,  \* lines of the widget activity_text
    withdrawn,      \* the window is hidden
    tray_icon,      \* the tray icon: whether it exists, its image, its menu
    drawn,          \* history: the status create_status_icon last read
    retries,        \* history: number of clicks on Retry Connection
    session,        \* main.py: request.session of the one browser session
    response,       \* main.py: what the last request was and how it was answered
    logged_in,      \* history: "never", "in" after a successful login, "out" after a logout
    requests        \* history: number of requests handled

logOnly == <<clock, max_entries, activities, callbacks, received, calls, hist>>
logVars == <<clock, max_entries, activities, callbacks, received, calls, hist, afterq>>
addVars == <<activity, kept, cbi>>
readVars == <<recent, asked, readAt>>

monVars == <<is_connected, last_check, probed, results>>

srvVars == <<is_running, ssl_enabled, local_ip, server_thread, servers,
             key_pem, cert_pem, tls_args, returned, starts>>

loopVars == <<monitoring, monitor_thread>>
guiVars == <<destroyed, exited, timers, server_status, db_status, local_url_label,
             network_url_label, activity_text, withdrawn, tray_icon, drawn, retries>>

webVars == <<session, response, logged_in, requests>>

\* what the methods of the ActivityLogger, of the DatabaseMonitor and of the
\* ServerManager, the handlers of the PriceScannerGUI and the routes of
\* main.py leave alone
outsideLogger == <<monVars, srvVars, loopVars, guiVars, webVars>>
outsideMonitor == <<addVars, readVars, srvVars, loopVars, guiVars, webVars>>
outsideLoop == <<addVars, readVars, srvVars, guiVars, webVars>>
outsideServer == <<addVars, readVars, monVars, loopVars, guiVars, webVars>>
outsideGui == <<addVars, readVars, srvVars, monVars, webVars>>
outsideWeb == <<logVars, pc, addVars, readVars, monVars, srvVars, loopVars, guiVars>>

vars == <<logVars, pc, addVars, readVars, monVars, srvVars, loopVars, guiVars, webVars>>

(* ----------------------------- threads --------------------------------- *)

Producers == {<<"producer", i>> : i \in 1..NProducers}

\* threads that call check_connection
Checkers == {<<"checker", 1>>}

\* threads that call start_server
Starters == {<<"starter", i>> : i \in 1..NStarters}

\* the thread of mainloop
Ui == <<"ui", 0>>

\* the thread of _start_db_monitoring
DbStarter == <<"dbstart", 1>>

\* the thread of _monitor_loop
Poller == <<"poll", 1>>

\* the threads of _retry_db_async, one per click
Retriers == {<<"retry", i>> : i \in 1..MaxRetries}

\* every thread start_monitoring may spawn
Pollers == {<<"poll", i>> : i \in 1..NPollers}

\* threads that call start_monitoring and stop_monitoring
Controllers == {<<"control", i>> : i \in 1..NControllers}

Threads ==
    Producers \cup Checkers \cup Starters \cup {Ui, DbStarter, Poller} \cup Retriers
        \cup Pollers \cup Controllers

None == <<"None">>

Levels == {"INFO", "SUCCESS", "ERROR"}

(* ------------------------- ActivityLogger ------------------------------ *)

\* f"[{timestamp}] {level}: {message}"
Format(timestamp, level, message) == <<timestamp, level, message>>

LevelOf(entry) == entry[2]
MessageOf(entry) == entry[3]

\* Python's s[-n:] for n >= 0: -0 is 0, so s[-0:] is the whole list
NegSlice(s, n) ==
    IF n = 0 \/ n >= Len(s) THEN s ELSE SubSeq(s, Len(s) - n + 1, Len(s))

\* self.activities.append(activity)
AppendedInFront(s, e) == <<e>> \o s
Appended(s, e) == Append(s, e)

\* len(self.activities) > self.max_entries
OverCapacity(s) == Len(s) > max_entries

\* self.activities[-self.max_entries:]
TruncatedToOldest(s) == SubSeq(s, 1, max_entries)
Truncated(s) == NegSlice(s, max_entries)

\* get_recent(count): self.activities[-count:] if self.activities else []
get_recent(count) ==
    IF activities # <<>> THEN NegSlice(activities, count) ELSE <<>>

\* the callback the GUI registers (setup_activity_callback, lines 283-288)
OnActivity == [id |-> 1, kind |-> "on_activity"]

\* __init__: no entries, no callbacks
LoggerInit ==
    /\ clock = 1
    /\ max_entries \in 1..MaxCapacity
    /\ activities = <<>>
    /\ received = [c \in 1..(MaxCallbacks + 1) |-> <<>>]
    /\ calls = <<>>
    /\ hist = <<>>
    /\ afterq = <<>>

LocalsInit ==
    /\ activity = [t \in Threads |-> None]
    /\ kept = [t \in Threads |-> None]
    /\ cbi = [t \in Threads |-> 0]

\* add_activity, lines 42-43: the timestamp is read and the entry formatted
AddBegin(t, level, message) ==
    /\ pc[t] = "idle"
    /\ Len(calls) < MaxCalls
    /\ activity' = [activity EXCEPT ![t] = Format(clock, level, message)]
    /\ clock' = clock + 1
    /\ calls' = Append(calls, activity'[t])
    /\ pc' = [pc EXCEPT ![t] = "append"]
    /\ UNCHANGED <<max_entries, activities, callbacks, received, hist, afterq, kept, cbi,
                   readVars, outsideLogger>>

\* line 44
AddAppend(t) ==
    /\ pc[t] = "append"
    /\ activities' = Appended(activities, activity[t])
    /\ hist' = Append(hist, activity[t])
    /\ pc' = [pc EXCEPT ![t] = "check"]
    /\ UNCHANGED <<clock, max_entries, callbacks, received, calls, afterq, addVars,
                   readVars, outsideLogger>>

\* line 47
AddCheck(t) ==
    /\ pc[t] = "check"
    /\ pc' = [pc EXCEPT ![t] = IF OverCapacity(activities) THEN "slice" ELSE "notify"]
    /\ cbi' = [cbi EXCEPT ![t] = 1]
    /\ UNCHANGED <<logVars, activity, kept, readVars, outsideLogger>>

\* line 48, right-hand side: a new list is built from the current one
AddSlice(t) ==
    /\ pc[t] = "slice"
    /\ kept' = [kept EXCEPT ![t] = Truncated(activities)]
    /\ pc' = [pc EXCEPT ![t] = "store"]
    /\ UNCHANGED <<logVars, activity, cbi, readVars, outsideLogger>>

\* line 48, the assignment to self.activities
AddStore(t) ==
    /\ pc[t] = "store"
    /\ activities' = kept[t]
    /\ kept' = [kept EXCEPT ![t] = None]
    /\ pc' = [pc EXCEPT ![t] = "notify"]
    /\ UNCHANGED <<clock, max_entries, callbacks, received, calls, hist, afterq, activity, cbi,
                   readVars, outsideLogger>>

\* whether callback cb, invoked now, returns (or raises): on_activity is
\* root.after(0, ...) (lines 284-286), which raises once the root is destroyed
Takes(cb) ==
    \/ cb.kind = "takes"
    \/ cb.kind = "on_activity" /\ ~destroyed

\* the entry in the form on_activity queues it
GuiUpdate(entry) == <<"add_activity_to_gui", entry>>

\* lines 51-55: one iteration of the loop; the callback is handed the entry,
\* or it raises, which `except: pass` swallows
AddNotify(t) ==
    /\ pc[t] = "notify"
    /\ cbi[t] <= Len(callbacks)
    /\ LET cb == callbacks[cbi[t]]
       IN  /\ received' = [received EXCEPT ![cb.id] = Append(@, activity[t])]
           /\ afterq' = IF Takes(cb) /\ cb.kind = "on_activity"
                        THEN Append(afterq, GuiUpdate(activity[t]))
                        ELSE afterq
    /\ cbi' = [cbi EXCEPT ![t] = @ + 1]
    /\ UNCHANGED <<clock, max_entries, activities, callbacks, calls, hist, pc, activity, kept,
                   readVars, outsideLogger>>

\* the loop of lines 51-55 is exhausted and add_activity returns
AddReturnOnRaise(t) ==
    /\ pc[t] = "notify"
    /\ \/ cbi[t] > Len(callbacks)
       \/ cbi[t] > 1 /\ ~Takes(callbacks[cbi[t] - 1])
    /\ pc' = [pc EXCEPT ![t] = "idle"]
    /\ activity' = [activity EXCEPT ![t] = None]
    /\ cbi' = [cbi EXCEPT ![t] = 0]
    /\ UNCHANGED <<logVars, kept, readVars, outsideLogger>>
AddReturn(t) ==
    /\ pc[t] = "notify"
    /\ cbi[t] > Len(callbacks)
    /\ pc' = [pc EXCEPT ![t] = "idle"]
    /\ activity' = [activity EXCEPT ![t] = None]
    /\ cbi' = [cbi EXCEPT ![t] = 0]
    /\ UNCHANGED <<logVars, kept, readVars, outsideLogger>>

\* add_callback, line 58; the callback registered is one that takes the
\* entry or one that raises
AddCallback ==
    /\ Len(callbacks) < MaxCallbacks
    /\ \E kind \in {"takes", "raises"} :
          callbacks' = Append(callbacks, [id |-> Len(callbacks) + 1, kind |-> kind])
    /\ UNCHANGED <<clock, max_entries, activities, received, calls, hist, afterq, pc, addVars,
                   readVars, outsideLogger>>

\* get_recent, line 61, called from a thread of its own
GetRecent(count) ==
    /\ recent' = get_recent(count)
    /\ asked' = count
    /\ readAt' = Len(calls)
    /\ UNCHANGED <<logVars, pc, addVars, outsideLogger>>

\* the steps of one add_activity call by thread t
AddActivity(t) ==
    \/ AddBegin(t, "INFO", "harness")
    \/ AddAppend(t)
    \/ AddCheck(t)
    \/ AddSlice(t)
    \/ AddStore(t)
    \/ AddNotify(t)
    \/ AddReturn(t)

\* a whole add_activity call (lines 42-55) made with no other thread running
\* between its steps
LogActivity(level, message) ==
    LET entry == Format(clock, level, message)
        longer == Appended(activities, entry)
        registered(c) == \E i \in 1..Len(callbacks) : callbacks[i].id = c
        queued == SelectSeq(callbacks, LAMBDA cb : Takes(cb) /\ cb.kind = "on_activity")
    IN  /\ clock' = clock + 1
        /\ calls' = Append(calls, entry)
        /\ hist' = Append(hist, entry)
        /\ activities' = IF OverCapacity(longer) THEN Truncated(longer) ELSE longer
        /\ received' = [c \in DOMAIN received |->
                            IF registered(c) THEN Append(received[c], entry) ELSE received[c]]
        /\ afterq' = afterq \o [i \in 1..Len(queued) |-> GuiUpdate(entry)]
        /\ UNCHANGED <<max_entries, callbacks>>

(* ------------------------- DatabaseMonitor ----------------------------- *)

\* last_check = None
Never == 0

\* what test_connection() gives (src/database.py): (True, message),
\* (False, message), or an exception raised into check_connection
FailureMessages == {"Connection test failed"}
ProbeOutcomes ==
    {[kind |-> "value", connected |-> TRUE, message |-> "Connection successful"]}
    \cup {[kind |-> "value", connected |-> FALSE, message |-> m] : m \in FailureMessages}
    \cup {[kind |-> "raise", connected |-> FALSE, message |-> "exception"]}

\* __init__, lines 65-70
MonitorInit ==
    /\ is_connected = FALSE
    /\ last_check = Never
    /\ probed = [t \in Threads |-> None]
    /\ results = <<>>

\* check_connection is entered
CheckBegin(t) ==
    /\ pc[t] = "idle"
    /\ Len(results) < MaxChecks
    /\ pc' = [pc EXCEPT ![t] = "probe"]
    /\ UNCHANGED <<logVars, monVars, outsideMonitor>>

\* line 95
CheckProbe(t) ==
    /\ pc[t] = "probe"
    /\ \E outcome \in ProbeOutcomes :
          /\ probed' = [probed EXCEPT ![t] = outcome]
          /\ pc' = [pc EXCEPT ![t] = IF outcome.kind = "raise" THEN "except" ELSE "compare"]
    /\ UNCHANGED <<logVars, is_connected, last_check, results, outsideMonitor>>

\* line 97: is_connected != self.is_connected
StatusChangedAlways(t) == TRUE
StatusChanged(t) == probed[t].connected # is_connected

\* line 97
CheckCompare(t) ==
    /\ pc[t] = "compare"
    /\ pc' = [pc EXCEPT ![t] = IF StatusChanged(t) THEN "log" ELSE "stamp"]
    /\ UNCHANGED <<logVars, monVars, outsideMonitor>>

\* lines 99-102
CheckLog(t) ==
    /\ pc[t] = "log"
    /\ IF probed[t].connected
       THEN LogActivity("SUCCESS", <<"Database connection restored">>)
       ELSE LogActivity("ERROR", <<"Database connection lost", probed[t].message>>)
    /\ pc' = [pc EXCEPT ![t] = "assign"]
    /\ UNCHANGED <<monVars, outsideMonitor>>

\* line 104
CheckAssign(t) ==
    /\ pc[t] = "assign"
    /\ is_connected' = probed[t].connected
    /\ pc' = [pc EXCEPT ![t] = "stamp"]
    /\ UNCHANGED <<logVars, last_check, probed, results, outsideMonitor>>

\* lines 106-107: the time is stored and (is_connected, message) returned
CheckStamp(t) ==
    /\ pc[t] = "stamp"
    /\ last_check' = clock
    /\ clock' = clock + 1
    /\ results' = Append(results, probed[t])
    /\ probed' = [probed EXCEPT ![t] = None]
    /\ pc' = [pc EXCEPT ![t] = "checked"]
    /\ UNCHANGED <<max_entries, activities, callbacks, received, calls, hist, afterq,
                   is_connected, outsideMonitor>>

\* lines 109-110 and 113: the exception is caught; when the monitor was not
\* connected (False, str(e)) is returned at once
CheckExcept(t) ==
    /\ pc[t] = "except"
    /\ IF is_connected
       THEN /\ pc' = [pc EXCEPT ![t] = "faillog"]
            /\ UNCHANGED <<probed, results>>
       ELSE /\ pc' = [pc EXCEPT ![t] = "checked"]
            /\ results' = Append(results, probed[t])
            /\ probed' = [probed EXCEPT ![t] = None]
    /\ UNCHANGED <<logVars, is_connected, last_check, outsideMonitor>>

\* line 111
CheckExceptLog(t) ==
    /\ pc[t] = "faillog"
    /\ LogActivity("ERROR", <<"Database connection failed", probed[t].message>>)
    /\ pc' = [pc EXCEPT ![t] = "failassign"]
    /\ UNCHANGED <<monVars, outsideMonitor>>

\* lines 112-113
CheckExceptAssign(t) ==
    /\ pc[t] = "failassign"
    /\ is_connected' = FALSE
    /\ results' = Append(results, probed[t])
    /\ probed' = [probed EXCEPT ![t] = None]
    /\ pc' = [pc EXCEPT ![t] = "checked"]
    /\ UNCHANGED <<logVars, last_check, outsideMonitor>>

\* the steps of one check_connection call by thread t, up to its return
CheckConnection(t) ==
    \/ CheckProbe(t)
    \/ CheckCompare(t)
    \/ CheckLog(t)
    \/ CheckAssign(t)
    \/ CheckStamp(t)
    \/ CheckExcept(t)
    \/ CheckExceptLog(t)
    \/ CheckExceptAssign(t)

\* a whole check_connection call (lines 94-113) made with no other thread
\* running between its steps
CheckConnectionCall(t) ==
    /\ pc[t] = "probe"
    /\ \E outcome \in ProbeOutcomes :
          /\ IF outcome.kind = "value"
             THEN /\ IF outcome.connected # is_connected
                     THEN IF outcome.connected
                          THEN LogActivity("SUCCESS", <<"Database connection restored">>)
                          ELSE LogActivity("ERROR", <<"Database connection lost", outcome.message>>)
                     ELSE /\ clock' = clock + 1
                          /\ UNCHANGED <<max_entries, activities, callbacks, received,
                                         calls, hist, afterq>>
                  /\ is_connected' = outcome.connected
                  /\ last_check' = clock'
             ELSE /\ IF is_connected
                     THEN LogActivity("ERROR", <<"Database connection failed", outcome.message>>)
                     ELSE UNCHANGED logVars
                  /\ is_connected' = FALSE
                  /\ UNCHANGED last_check
          /\ results' = Append(results, outcome)
    /\ pc' = [pc EXCEPT ![t] = "checked"]
    /\ UNCHANGED <<probed, outsideMonitor>>

(* --------------------------- ServerManager ----------------------------- *)

\* self.port
port == 8000

\* what get_local_ip() gives (src/main.py): the address of the outbound
\* interface
LocalIps == {<<"192.168.1.20">>}

\* f"{protocol}://{host}:{port}"
Url(protocol, host) == <<protocol, host, port>>

\* "https" if self.ssl_enabled else "http"
ProtocolSecure == "https"
Protocol == IF ssl_enabled THEN "https" ELSE "http"

\* start_server's locals outside a call
NoLocals == [keyfile |-> None, certfile |-> None]

\* __init__, lines 117-124; the two files are there or not
ServerInit ==
    /\ is_running = FALSE
    /\ ssl_enabled = FALSE
    /\ local_ip = None
    /\ server_thread = 0
    /\ servers = <<>>
    /\ key_pem \in BOOLEAN
    /\ cert_pem \in BOOLEAN
    /\ tls_args = [t \in Threads |-> NoLocals]
    /\ returned = [t \in Threads |-> None]
    /\ starts = 0

\* line 127: if self.is_running
NeverRunning == FALSE
AlreadyRunning == is_running

\* lines 126-128: start_server is entered; it returns True at once when the
\* server is marked running
StartEnter(t) ==
    /\ pc[t] = "idle"
    /\ starts < MaxStarts
    /\ starts' = starts + 1
    /\ IF AlreadyRunning
       THEN /\ pc' = [pc EXCEPT ![t] = "started"]
            /\ returned' = [returned EXCEPT ![t] = <<TRUE>>]
       ELSE /\ pc' = [pc EXCEPT ![t] = "setup"]
            /\ returned' = [returned EXCEPT ![t] = None]
    /\ UNCHANGED <<logVars, is_running, ssl_enabled, local_ip, server_thread, servers,
                   key_pem, cert_pem, tls_args, outsideServer>>

\* lines 132-137
StartSetup(t) ==
    /\ pc[t] = "setup"
    /\ tls_args' = [tls_args EXCEPT ![t] =
                        [keyfile |-> IF key_pem THEN <<"key.pem">> ELSE None,
                         certfile |-> IF cert_pem THEN <<"cert.pem">> ELSE None]]
    /\ ssl_enabled' = (key_pem /\ cert_pem)
    /\ local_ip' \in LocalIps
    /\ pc' = [pc EXCEPT ![t] = "spawn"]
    /\ UNCHANGED <<logVars, is_running, server_thread, servers, key_pem, cert_pem,
                   returned, starts, outsideServer>>

\* lines 140-145: the server thread is created and started
StartSpawn(t) ==
    /\ pc[t] = "spawn"
    /\ servers' = Append(servers, [state |-> "starting",
                                    ssl_keyfile |-> tls_args[t].keyfile,
                                    ssl_certfile |-> tls_args[t].certfile])
    /\ server_thread' = Len(servers) + 1
    /\ pc' = [pc EXCEPT ![t] = "settle"]
    /\ UNCHANGED <<logVars, is_running, ssl_enabled, local_ip, key_pem, cert_pem,
                   tls_args, returned, starts, outsideServer>>

\* line 145, Thread.start() raising (the interpreter cannot start a thread),
\* and lines 156-158
StartSpawnFails(t) ==
    /\ pc[t] = "spawn"
    /\ LogActivity("ERROR", <<"Failed to start server", "can't start new thread">>)
    /\ returned' = [returned EXCEPT ![t] = <<FALSE>>]
    /\ tls_args' = [tls_args EXCEPT ![t] = NoLocals]
    /\ pc' = [pc EXCEPT ![t] = "started"]
    /\ UNCHANGED <<is_running, ssl_enabled, local_ip, server_thread, servers,
                   key_pem, cert_pem, starts, outsideServer>>

\* lines 148-151: the two seconds are over and the start is logged
StartAnnounce(t) ==
    /\ pc[t] = "settle"
    /\ LogActivity("SUCCESS", <<"Server started on", Url(Protocol, local_ip[1])>>)
    /\ pc' = [pc EXCEPT ![t] = "mark"]
    /\ UNCHANGED <<srvVars, outsideServer>>

\* lines 153-154
StartMarkResetsMonitor(t) ==
    /\ pc[t] = "mark"
    /\ is_running' = TRUE
    /\ is_connected' = FALSE
    /\ returned' = [returned EXCEPT ![t] = <<TRUE>>]
    /\ tls_args' = [tls_args EXCEPT ![t] = NoLocals]
    /\ pc' = [pc EXCEPT ![t] = "started"]
    /\ UNCHANGED <<logVars, ssl_enabled, local_ip, server_thread, servers,
                   key_pem, cert_pem, starts, last_check, probed, results,
                   addVars, readVars, loopVars, guiVars, webVars>>
StartMark(t) ==
    /\ pc[t] = "mark"
    /\ is_running' = TRUE
    /\ returned' = [returned EXCEPT ![t] = <<TRUE>>]
    /\ tls_args' = [tls_args EXCEPT ![t] = NoLocals]
    /\ pc' = [pc EXCEPT ![t] = "started"]
    /\ UNCHANGED <<logVars, ssl_enabled, local_ip, server_thread, servers,
                   key_pem, cert_pem, starts, outsideServer>>

\* the steps of one start_server call by thread t, up to its return
StartServer(t) ==
    \/ StartSetup(t)
    \/ StartSpawn(t)
    \/ StartSpawnFails(t)
    \/ StartAnnounce(t)
    \/ StartMark(t)

\* _run_server, lines 162-169: uvicorn.run has bound the port and serves
ServerServes(k) ==
    /\ k \in DOMAIN servers
    /\ servers[k].state = "starting"
    /\ servers' = [servers EXCEPT ![k].state = "serving"]
    /\ UNCHANGED <<logVars, pc, is_running, ssl_enabled, local_ip, server_thread,
                   key_pem, cert_pem, tls_args, returned, starts, outsideServer>>

\* _run_server, lines 170-171: uvicorn.run raises during startup
ServerErrorStops(k) ==
    /\ k \in DOMAIN servers
    /\ servers[k].state = "starting"
    /\ servers' = [servers EXCEPT ![k].state = "failed"]
    /\ LogActivity("ERROR", <<"Server error", "address already in use">>)
    /\ is_running' = FALSE
    /\ UNCHANGED <<pc, ssl_enabled, local_ip, server_thread,
                   key_pem, cert_pem, tls_args, returned, starts, outsideServer>>
ServerError(k) ==
    /\ k \in DOMAIN servers
    /\ servers[k].state = "starting"
    /\ servers' = [servers EXCEPT ![k].state = "failed"]
    /\ LogActivity("ERROR", <<"Server error", "address already in use">>)
    /\ UNCHANGED <<pc, is_running, ssl_enabled, local_ip, server_thread,
                   key_pem, cert_pem, tls_args, returned, starts, outsideServer>>

\* every start_server call spawns at most one server thread
ServerIds == 1..MaxStarts

\* the server thread k
RunServer(k) == ServerServes(k) \/ ServerError(k)

\* get_urls, lines 173-181
get_urls_while_stopped ==
    <<Url(Protocol, "localhost"),
      IF local_ip # None THEN Url(Protocol, local_ip[1]) ELSE None>>
get_urls ==
    IF ~is_running THEN <<None, None>>
    ELSE <<Url(Protocol, "localhost"),
           IF local_ip # None THEN Url(Protocol, local_ip[1]) ELSE None>>

(* ------------------ DatabaseMonitor: the poll loop --------------------- *)

\* __init__, lines 69-70
LoopInit ==
    /\ monitoring = FALSE
    /\ monitor_thread = None

\* root.after(0, callback) from thread t, which then is at `next`; the call
\* raises in t once the root is destroyed
RootAfter(t, callback, next) ==
    IF destroyed
    THEN /\ pc' = [pc EXCEPT ![t] = "raised"]
         /\ UNCHANGED afterq
    ELSE /\ pc' = [pc EXCEPT ![t] = next]
         /\ afterq' = Append(afterq, <<callback>>)

\* a whole start_monitoring call (lines 73-77) by thread t, after the sleep
\* of line 309: the poll thread is created and started
StartMonitoringCall(t) ==
    /\ pc[t] = "start_monitoring"
    /\ IF ~monitoring
       THEN /\ pc[Poller] = "unborn"
            /\ monitoring' = TRUE
            /\ monitor_thread' = Poller
            /\ LogActivity("INFO", <<"Database monitoring started">>)
            /\ pc' = [pc EXCEPT ![t] = "monitoring", ![Poller] = "loop"]
       ELSE /\ pc' = [pc EXCEPT ![t] = "monitoring"]
            /\ UNCHANGED <<logVars, loopVars>>
    /\ UNCHANGED <<monVars, outsideLoop>>

\* start_monitoring, line 73: if not self.monitoring
MonitorStartTest(t) ==
    /\ pc[t] = "idle"
    /\ pc' = [pc EXCEPT ![t] = IF ~monitoring THEN "set_monitoring" ELSE "idle"]
    /\ UNCHANGED <<logVars, monVars, loopVars, outsideLoop>>

\* line 74
MonitorStartSet(t) ==
    /\ pc[t] = "set_monitoring"
    /\ monitoring' = TRUE
    /\ pc' = [pc EXCEPT ![t] = "spawn_monitor"]
    /\ UNCHANGED <<logVars, monVars, monitor_thread, outsideLoop>>

\* lines 75-76: a new thread is created on _monitor_loop and started
MonitorStartSpawn(t) ==
    /\ pc[t] = "spawn_monitor"
    /\ \E p \in Pollers :
          /\ pc[p] = "unborn"
          /\ \A q \in Pollers : pc[q] = "unborn" => q[2] >= p[2]
          /\ monitor_thread' = p
          /\ pc' = [pc EXCEPT ![t] = "log_monitoring", ![p] = "loop"]
    /\ UNCHANGED <<logVars, monVars, monitoring, outsideLoop>>

\* line 77
MonitorStartLog(t) ==
    /\ pc[t] = "log_monitoring"
    /\ LogActivity("INFO", <<"Database monitoring started">>)
    /\ pc' = [pc EXCEPT ![t] = "idle"]
    /\ UNCHANGED <<monVars, loopVars, outsideLoop>>

\* the steps of one start_monitoring call by thread t
StartMonitoring(t) ==
    \/ MonitorStartTest(t)
    \/ MonitorStartSet(t)
    \/ MonitorStartSpawn(t)
    \/ MonitorStartLog(t)

\* stop_monitoring, line 80
StopMonitoringSet(t) ==
    /\ pc[t] = "stop_monitoring"
    /\ monitoring' = FALSE
    /\ pc' = [pc EXCEPT ![t] = "join"]
    /\ UNCHANGED <<logVars, monVars, monitor_thread, outsideLoop>>

\* lines 81-82: join(timeout=1) returns, the poll thread having ended or the
\* second being over
StopMonitoringJoin(t) ==
    /\ pc[t] = "join"
    /\ pc' = [pc EXCEPT ![t] = "stopped"]
    /\ UNCHANGED <<logVars, monVars, loopVars, outsideLoop>>

\* the steps of one stop_monitoring call by thread t
StopMonitoring(t) == StopMonitoringSet(t) \/ StopMonitoringJoin(t)

\* the poll thread runs with the one caller of start_monitoring and the one
\* of stop_monitoring of the loop harness
InLoopHarness == pc[Ui] \in {"stop_monitoring", "join", "stopped"}

\* how many checks the poll threads are followed through
PollBudget == IF InLoopHarness THEN MaxLoopPolls ELSE MaxPolls

\* _monitor_loop, line 85: the loop goes on into check_connection (line 87)
\* or ends
PollTestIgnoresStop(t) ==
    /\ pc[t] = "loop"
    /\ Len(results) < PollBudget
    /\ pc' = [pc EXCEPT ![t] = "probe"]
    /\ UNCHANGED <<logVars, monVars, loopVars, outsideLoop>>
PollTest(t) ==
    /\ pc[t] = "loop"
    /\ monitoring => Len(results) < PollBudget
    /\ pc' = [pc EXCEPT ![t] = IF monitoring THEN "probe" ELSE "done"]
    /\ UNCHANGED <<logVars, monVars, loopVars, outsideLoop>>

\* line 88: check_connection has returned and the 30 seconds are over
PollSleepEnds(t) ==
    /\ pc[t] = "checked"
    /\ pc' = [pc EXCEPT ![t] = IF results[Len(results)].kind = "raise" THEN "done" ELSE "loop"]
    /\ UNCHANGED <<logVars, monVars, loopVars, outsideLoop>>
PollSleep(t) ==
    /\ pc[t] = "checked"
    /\ pc' = [pc EXCEPT ![t] = "loop"]
    /\ UNCHANGED <<logVars, monVars, loopVars, outsideLoop>>

\* the poll thread
MonitorLoop(t) == PollTest(t) \/ CheckConnectionCall(t) \/ PollSleep(t)

(* -------------------------- PriceScannerGUI ---------------------------- *)

NotAvailable == <<"Not available">>

NoTray == [created |-> FALSE, icon |-> "", server |-> "", database |-> ""]

\* create_status_icon, lines 397-403: the colour of the circle
create_status_icon_connected_first ==
    IF is_connected THEN "green" ELSE IF is_running THEN "orange" ELSE "red"
create_status_icon ==
    IF is_running /\ is_connected THEN "green"
    ELSE IF is_running THEN "orange"
    ELSE "red"

\* create_tray_icon, lines 368-389
CreatedTray ==
    [created |-> TRUE,
     icon |-> create_status_icon,
     server |-> IF is_running THEN "Running" ELSE "Stopped",
     database |-> IF is_connected THEN "Connected" ELSE "Disconnected"]

\* setup_window, lines 202-281, and the fields of __init__
GuiInit ==
    /\ destroyed = FALSE
    /\ exited = FALSE
    /\ timers = 0
    /\ server_status = "Starting..."
    /\ db_status = "Checking..."
    /\ local_url_label = NotAvailable
    /\ network_url_label = NotAvailable
    /\ activity_text = <<>>
    /\ withdrawn = FALSE
    /\ tray_icon = NoTray
    /\ drawn = <<FALSE, FALSE>>
    /\ retries = 0

\* update_tray_icon, lines 411-413
UpdateTrayIcon ==
    IF tray_icon.created
    THEN /\ tray_icon' = [tray_icon EXCEPT !.icon = create_status_icon]
         /\ drawn' = <<is_running, is_connected>>
    ELSE UNCHANGED <<tray_icon, drawn>>

\* update_server_status, lines 313-330
UpdateServerStatus ==
    /\ server_status' = IF is_running THEN "Running" ELSE "Failed"
    /\ local_url_label' = IF is_running /\ get_urls[1] # None
                          THEN get_urls[1] ELSE local_url_label
    /\ network_url_label' = IF is_running /\ get_urls[2] # None
                            THEN get_urls[2] ELSE network_url_label
    /\ UpdateTrayIcon
    /\ UNCHANGED <<destroyed, exited, timers, db_status, activity_text, withdrawn, retries>>

\* update_db_status, lines 332-342; it leaves `pending` timers behind
UpdateDbStatus(pending) ==
    /\ db_status' = IF is_connected THEN "Connected" ELSE "Disconnected"
    /\ timers' = pending
    /\ UpdateTrayIcon
    /\ UNCHANGED <<destroyed, exited, server_status, local_url_label, network_url_label,
                   activity_text, withdrawn, retries>>

\* mainloop is running and takes the next event
UiReady == pc[Ui] = "mainloop"

\* the callback mainloop runs next is `callback`
UiNext(callback) ==
    /\ UiReady
    /\ afterq # <<>>
    /\ Head(afterq)[1] = callback
    /\ afterq' = Tail(afterq)

\* run, line 479
UiRun ==
    /\ pc[Ui] = "run"
    /\ LogActivity("INFO", <<"Price Scanner System GUI started">>)
    /\ pc' = [pc EXCEPT ![Ui] = "mainloop"]
    /\ UNCHANGED <<loopVars, guiVars, outsideGui>>

\* add_activity_to_gui, lines 290-295, queued by on_activity
UiAddActivityToGui ==
    /\ UiNext("add_activity_to_gui")
    /\ activity_text' = Append(activity_text, Head(afterq)[2])
    /\ UNCHANGED <<logOnly, pc, loopVars, outsideGui, destroyed, exited, timers,
                   server_status, db_status, local_url_label, network_url_label,
                   withdrawn, tray_icon, drawn, retries>>

\* update_server_status, queued by _start_server_async
UiUpdateServerStatus ==
    /\ UiNext("update_server_status")
    /\ UpdateServerStatus
    /\ UNCHANGED <<logOnly, pc, loopVars, outsideGui>>

\* update_db_status, queued by _start_db_monitoring or _retry_db_async
UiUpdateDbStatusOnce ==
    /\ UiNext("update_db_status")
    /\ UpdateDbStatus(timers)
    /\ UNCHANGED <<logOnly, pc, loopVars, outsideGui>>

UiUpdateDbStatus ==
    /\ UiNext("update_db_status")
    /\ UpdateDbStatus(timers + 1)
    /\ UNCHANGED <<logOnly, pc, loopVars, outsideGui>>

\* update_db_status, run by one of the timers of line 339
UiTimerUpdateDbStatus ==
    /\ UiReady
    /\ timers > 0
    /\ UpdateDbStatus(timers)
    /\ UNCHANGED <<logVars, pc, loopVars, outsideGui>>

\* hide_window, lines 358-361: Hide to Tray, or the window is closed
UiHideWindow ==
    /\ UiReady
    /\ withdrawn' = TRUE
    /\ IF ~tray_icon.created
       THEN /\ tray_icon' = CreatedTray
            /\ drawn' = <<is_running, is_connected>>
       ELSE UNCHANGED <<tray_icon, drawn>>
    /\ UNCHANGED <<logVars, pc, loopVars, outsideGui, destroyed, exited, timers,
                   server_status, db_status, local_url_label, network_url_label,
                   activity_text, retries>>

\* retry_database, lines 344-346: Retry Connection is clicked
UiRetryDatabase ==
    /\ UiReady
    /\ retries < MaxRetries
    /\ retries' = retries + 1
    /\ LogActivity("INFO", <<"Manual database retry requested">>)
    /\ pc' = [pc EXCEPT ![<<"retry", retries + 1>>] = "probe"]
    /\ UNCHANGED <<loopVars, outsideGui, destroyed, exited, timers,
                   server_status, db_status, local_url_label, network_url_label,
                   activity_text, withdrawn, tray_icon, drawn>>

\* a whole quit_application call (lines 462-475): Exit is clicked and
\* confirmed, monitoring is stopped, the root is destroyed and os._exit(0)
\* ends every thread
UiQuitApplication ==
    /\ UiReady
    /\ LogActivity("INFO", <<"Application shutting down">>)
    /\ monitoring' = FALSE
    /\ destroyed' = TRUE
    /\ exited' = TRUE
    /\ pc' = [t \in Threads |-> "exited"]
    /\ servers' = [k \in DOMAIN servers |-> [servers[k] EXCEPT !.state = "exited"]]
    /\ UNCHANGED <<webVars, monitor_thread, addVars, readVars, monVars,
                   is_running, ssl_enabled, local_ip, server_thread,
                   key_pem, cert_pem, tls_args, returned, starts,
                   timers, server_status, db_status, local_url_label,
                   network_url_label, activity_text, withdrawn, tray_icon, drawn, retries>>

\* quit_application, lines 462-466: Exit is clicked and confirmed, the
\* shutdown is logged and stop_monitoring clears the flag and waits for the
\* poll thread
UiQuitBegin ==
    /\ UiReady
    /\ LogActivity("INFO", <<"Application shutting down">>)
    /\ monitoring' = FALSE
    /\ pc' = [pc EXCEPT ![Ui] = "join"]
    /\ UNCHANGED <<monitor_thread, guiVars, outsideGui>>

\* lines 82 and 469-474: the join has returned or timed out, the tray icon is
\* stopped and the root destroyed
UiQuitDestroy ==
    /\ pc[Ui] = "join"
    /\ destroyed' = TRUE
    /\ pc' = [pc EXCEPT ![Ui] = "exit"]
    /\ UNCHANGED <<logVars, loopVars, outsideGui, exited, timers,
                   server_status, db_status, local_url_label, network_url_label,
                   activity_text, withdrawn, tray_icon, drawn, retries>>

\* line 475: os._exit(0) ends every thread
UiQuitExit ==
    /\ pc[Ui] = "exit"
    /\ exited' = TRUE
    /\ pc' = [t \in Threads |-> "exited"]
    /\ servers' = [k \in DOMAIN servers |-> [servers[k] EXCEPT !.state = "exited"]]
    /\ UNCHANGED <<webVars, logVars, loopVars, addVars, readVars, monVars,
                   is_running, ssl_enabled, local_ip, server_thread,
                   key_pem, cert_pem, tls_args, returned, starts,
                   destroyed, timers, server_status, db_status, local_url_label,
                   network_url_label, activity_text, withdrawn, tray_icon, drawn, retries>>

\* _start_server_async, lines 305-306
AsyncStartUpdates(t) ==
    /\ pc[t] = "started"
    /\ pc' = [pc EXCEPT ![t] = "done"]
    /\ IF returned[t] = <<TRUE>> THEN UpdateServerStatus ELSE UNCHANGED guiVars
    /\ UNCHANGED <<logVars, loopVars, outsideGui>>
AsyncStartQueues(t) ==
    /\ pc[t] = "started"
    /\ IF returned[t] = <<TRUE>>
       THEN RootAfter(t, "update_server_status", "done")
       ELSE /\ pc' = [pc EXCEPT ![t] = "done"]
            /\ UNCHANGED afterq
    /\ UNCHANGED <<logOnly, loopVars, guiVars, outsideGui>>

\* _start_db_monitoring, line 311
DbStartQueues(t) ==
    /\ pc[t] = "monitoring"
    /\ RootAfter(t, "update_db_status", "done")
    /\ UNCHANGED <<logOnly, loopVars, guiVars, outsideGui>>

\* _retry_db_async, line 350
RetryQueues(t) ==
    /\ pc[t] = "checked"
    /\ RootAfter(t, "update_db_status", "done")
    /\ UNCHANGED <<logOnly, loopVars, guiVars, outsideGui>>

(* ------------------------------ main.py -------------------------------- *)
\* the routes of the FastAPI application as one browser session sees them;
\* request.session is the session's dictionary, a key that is absent reads
\* as None (username, full_name) or as falsy (authenticated)

Absent == "None"

\* request.session after clear(), line 211, and before the first login
EmptySession == [authenticated |-> FALSE, username |-> Absent, full_name |-> Absent]
SessionKeepsFlag == [session EXCEPT !.username = Absent, !.full_name = Absent]
SessionClear == EmptySession

\* the rows of the user table; a password is stored hashed or in plain text,
\* and a full name may be missing
UserTable ==
    { [username |-> "ali", password |-> "secret", full_name |-> "Ali A."],
      [username |-> "sara", password |-> "#1c8b", full_name |-> Absent] }

\* what a login form carries
Usernames == {"", " ", "ali", " ali ", "sara", "bob"}
Passwords == {"", "secret", "letmein", "wrong", "#1c8b"}

\* str.strip() on those
strip(text) ==
    CASE text = " " -> ""
      [] text = " ali " -> "ali"
      [] OTHER -> text

\* database.hash_password, lines 71-73: the SHA-256 digest, written in hex
hash_password(password) ==
    CASE password = "" -> "#e3b0"
      [] password = "secret" -> "#2bb8"
      [] password = "letmein" -> "#1c8b"
      [] password = "wrong" -> "#8810"
      [] OTHER -> "#d5a7"

\* database.verify_user_credentials, lines 75-123; reachable is whether the
\* query went through
verify_user_credentials(username, password, reachable) ==
    LET rows == {u \in UserTable : u.username = username}
        matching == {u \in rows : \/ u.password = hash_password(password)
                                  \/ u.password = password}
    IN  IF ~reachable
        THEN [success |-> FALSE, error |-> "Authentication system unavailable"]
        ELSE IF matching # {}
        THEN LET u == CHOOSE u \in matching : TRUE
             IN  [success |-> TRUE, username |-> u.username,
                  full_name |-> IF u.full_name # Absent THEN u.full_name ELSE username]
        ELSE [success |-> FALSE, error |-> "Invalid username or password"]

\* request.session.get("authenticated")
Authenticated == session.authenticated

PageRoutes == {"/scanner", "/cart", "/info"}

Redirect(route, url) == [route |-> route, status |-> 302, detail |-> url]
Answer(route, code, detail) == [route |-> route, status |-> code, detail |-> detail]

\* an application object before any request
WebInit ==
    /\ session = EmptySession
    /\ response = Answer("None", 0, "None")
    /\ logged_in = "never"
    /\ requests = 0

\* a request arrives and is counted
Request ==
    /\ requests < MaxRequests
    /\ requests' = requests + 1

\* GET /, lines 95-101
Root ==
    /\ Request
    /\ response' = IF Authenticated THEN Redirect("/", "/scanner") ELSE Redirect("/", "/login")
    /\ UNCHANGED <<session, logged_in, outsideWeb>>

\* GET /login, lines 103-112
LoginPage ==
    /\ Request
    /\ response' = IF Authenticated THEN Redirect("/login", "/scanner")
                   ELSE Answer("/login", 200, "login.html")
    /\ UNCHANGED <<session, logged_in, outsideWeb>>

\* require_auth, lines 70-74, as the page routes use it (lines 114-152): the
\* redirect, or the template with the session's username
Page(route) ==
    /\ Request
    /\ response' = IF ~Authenticated THEN Redirect(route, "/login")
                   ELSE Answer(route, 200, session.username)
    /\ UNCHANGED <<session, logged_in, outsideWeb>>

\* POST /api/login, lines 156-198; body is the parsed JSON, unless
\* request.json() raises because the body is not well formed
Login(wellformed, body, reachable) ==
    /\ Request
    /\ IF ~wellformed
       THEN /\ response' = Answer("/api/login", 500, "error")
            /\ UNCHANGED <<session, logged_in>>
       ELSE LET username == strip(body.username)
                password == body.password
                auth_result == verify_user_credentials(username, password, reachable)
            IN  IF username = "" \/ password = ""
                THEN /\ response' = Answer("/api/login", 400, "missing")
                     /\ UNCHANGED <<session, logged_in>>
                ELSE IF auth_result.success
                THEN /\ session' = [authenticated |-> TRUE,
                                    username |-> auth_result.username,
                                    full_name |-> auth_result.full_name]
                     /\ logged_in' = "in"
                     /\ response' = Answer("/api/login", 200, auth_result.username)
                ELSE /\ response' = Answer("/api/login", 401, auth_result.error)
                     /\ UNCHANGED <<session, logged_in>>
    /\ UNCHANGED outsideWeb

\* POST /api/logout, lines 200-240
Logout ==
    /\ Request
    /\ session' = SessionClear
    /\ logged_in' = IF logged_in = "never" THEN "never" ELSE "out"
    /\ response' = Answer("/api/logout", 200, "/login")
    /\ UNCHANGED outsideWeb

\* get_current_user, lines 61-68, as a dependency of the two API routes
Unauthorized(route) == Answer(route, 401, "Authentication required")

\* GET /api/price/{barcode}, lines 268-290; found is whether
\* get_product_by_barcode returned a product
GetPrice(barcode, found) ==
    /\ Request
    /\ response' = IF ~Authenticated THEN Unauthorized("/api/price")
                   ELSE IF strip(barcode) = "" THEN Answer("/api/price", 400, "empty")
                   ELSE IF ~found THEN Answer("/api/price", 404, "Product not found")
                   ELSE Answer("/api/price", 200, strip(barcode))
    /\ UNCHANGED <<session, logged_in, outsideWeb>>

\* GET /api/app-url, lines 292-314
GetAppUrl ==
    /\ Request
    /\ response' = IF ~Authenticated THEN Unauthorized("/api/app-url")
                   ELSE Answer("/api/app-url", 200,
                               IF cert_pem /\ key_pem THEN "https" ELSE "http")
    /\ UNCHANGED <<session, logged_in, outsideWeb>>

(* --------------------- logger harness, concurrent ---------------------- *)
\* producer threads call add_activity with nothing serializing them

\* neither key.pem nor cert.pem exists
NoTlsFiles == ~key_pem /\ ~cert_pem

HarnessInit ==
    /\ LoggerInit
    /\ LocalsInit
    /\ pc = [t \in Threads |-> "idle"]
    /\ recent = <<>>
    /\ asked = 0
    /\ readAt = 0
    /\ MonitorInit
    /\ ServerInit
    /\ LoopInit
    /\ GuiInit
    /\ WebInit

\* as in the launcher (setup_activity_callback, line 288), one callback is
\* registered before any producer thread runs
LogInit ==
    /\ HarnessInit
    /\ callbacks = <<OnActivity>>
    /\ NoTlsFiles

LogNext == \E t \in Producers : AddActivity(t)

SpecLog == LogInit /\ [][LogNext]_vars

(* --------------------- logger harness, sequential ---------------------- *)
\* one caller: add_activity, add_callback and get_recent one after another

Quiet == \A t \in Threads : pc[t] = "idle"

\* __init__, line 39: no callback yet
SeqInit ==
    /\ HarnessInit
    /\ callbacks = <<>>
    /\ NoTlsFiles

Reader == \E count \in 0..(MaxCapacity + 1) : GetRecent(count)

SeqReader == Quiet /\ Reader

SeqAddCallback == Quiet /\ AddCallback

SeqNext ==
    \/ AddActivity(<<"producer", 1>>)
    \/ SeqAddCallback
    \/ SeqReader

SpecLogSeq == SeqInit /\ [][SeqNext]_vars

(* -------------------------- monitor harness ---------------------------- *)
\* one caller makes check_connection calls one after another on a freshly
\* constructed DatabaseMonitor

\* the caller has the value check_connection returned
CheckReturned(t) ==
    /\ pc[t] = "checked"
    /\ pc' = [pc EXCEPT ![t] = "idle"]
    /\ UNCHANGED <<logVars, monVars, outsideMonitor>>

MonNext ==
    \E t \in Checkers :
        \/ CheckBegin(t)
        \/ CheckConnection(t)
        \/ CheckReturned(t)

\* the logger is the launcher's, with its callback registered
MonInit ==
    /\ HarnessInit
    /\ callbacks = <<OnActivity>>
    /\ max_entries = MaxCapacity
    /\ NoTlsFiles

SpecMon == MonInit /\ [][MonNext]_vars

(* --------------------------- server harness ---------------------------- *)
\* threads call start_server on one ServerManager, with nothing serializing
\* them, and the server threads they spawn run

\* the caller has the value start_server returned
StartReturned(t) ==
    /\ pc[t] = "started"
    /\ pc' = [pc EXCEPT ![t] = "idle"]
    /\ UNCHANGED <<logVars, srvVars, outsideServer>>

StartNext ==
    \/ \E t \in Starters : StartEnter(t) \/ StartServer(t) \/ StartReturned(t)
    \/ \E k \in ServerIds : RunServer(k)

\* the logger is the launcher's, with its callback registered
StartInit ==
    /\ HarnessInit
    /\ callbacks = <<OnActivity>>
    /\ max_entries = MaxCapacity

SpecStart == StartInit /\ [][StartNext]_vars

(* ----------------------------- the launcher ---------------------------- *)
\* the program as PriceScannerGUI wires it: the state after __init__ (lines
\* 185-200) with start_hidden False, then run() with the threads of
\* start_services

Init ==
    /\ LoggerInit
    /\ max_entries = MaxCapacity
    /\ callbacks = <<OnActivity>>
    /\ LocalsInit
    /\ recent = <<>>
    /\ asked = 0
    /\ readAt = 0
    /\ MonitorInit
    /\ ServerInit
    /\ NoTlsFiles
    /\ LoopInit
    /\ GuiInit
    /\ WebInit
    /\ pc = [t \in Threads |->
                IF t = Ui THEN "run"
                ELSE IF t = DbStarter THEN "start_monitoring"
                ELSE IF t = Poller \/ t \in Retriers THEN "unborn"
                ELSE "idle"]

AsyncStarter == <<"starter", 1>>

Next ==
    \/ UiRun
    \/ UiAddActivityToGui
    \/ UiUpdateServerStatus
    \/ UiUpdateDbStatus
    \/ UiTimerUpdateDbStatus
    \/ UiHideWindow
    \/ UiQuitApplication
    \/ StartEnter(AsyncStarter) \/ StartServer(AsyncStarter) \/ AsyncStartQueues(AsyncStarter)
    \/ \E k \in ServerIds : RunServer(k)
    \/ StartMonitoringCall(DbStarter) \/ DbStartQueues(DbStarter)
    \/ MonitorLoop(Poller)

Spec == Init /\ [][Next]_vars

(* ------------------- the launcher, the window kept open --------------- *)
\* the launcher while Exit is not clicked: mainloop goes on taking the
\* callbacks queued for it and the timers that are due, and the thread of
\* _start_db_monitoring goes on to its root.after

OpenNext ==
    \/ UiRun
    \/ UiAddActivityToGui
    \/ UiUpdateServerStatus
    \/ UiUpdateDbStatus
    \/ UiTimerUpdateDbStatus
    \/ UiHideWindow
    \/ StartEnter(AsyncStarter) \/ StartServer(AsyncStarter) \/ AsyncStartQueues(AsyncStarter)
    \/ \E k \in ServerIds : RunServer(k)
    \/ StartMonitoringCall(DbStarter) \/ DbStartQueues(DbStarter)
    \/ MonitorLoop(Poller)

\* what a step of mainloop, of the monitor-start thread or of the
\* server-start thread after start_server can change
openView == <<afterq, pc, guiVars>>

OpenFairness ==
    /\ WF_openView(UiRun)
    /\ WF_openView(UiAddActivityToGui)
    /\ WF_openView(UiUpdateServerStatus)
    /\ WF_openView(UiUpdateDbStatus)
    /\ WF_openView(UiTimerUpdateDbStatus)
    /\ WF_openView(DbStartQueues(DbStarter))
    /\ WF_openView(AsyncStartQueues(AsyncStarter))

SpecOpen == Init /\ [][OpenNext]_vars /\ OpenFairness

(* ---------------------- the launcher, database side -------------------- *)
\* the window with the monitor and Retry Connection, the server left out

DbNext ==
    \/ UiRun
    \/ UiAddActivityToGui
    \/ UiUpdateDbStatus
    \/ UiTimerUpdateDbStatus
    \/ UiHideWindow
    \/ UiRetryDatabase
    \/ UiQuitApplication
    \/ StartMonitoringCall(DbStarter) \/ DbStartQueues(DbStarter)
    \/ MonitorLoop(Poller)
    \/ \E t \in Retriers : CheckConnectionCall(t) \/ RetryQueues(t)

SpecDb == Init /\ [][DbNext]_vars

(* ---------------------------- loop harness ----------------------------- *)
\* on a freshly constructed DatabaseMonitor one thread calls
\* start_monitoring and another, at any time, stop_monitoring

LoopHarnessInit ==
    /\ LoggerInit
    /\ callbacks = <<OnActivity>>
    /\ LocalsInit
    /\ recent = <<>>
    /\ asked = 0
    /\ readAt = 0
    /\ MonitorInit
    /\ ServerInit
    /\ NoTlsFiles
    /\ LoopInit
    /\ GuiInit
    /\ WebInit
    /\ pc = [t \in Threads |->
                IF t = DbStarter THEN "start_monitoring"
                ELSE IF t = Ui THEN "stop_monitoring"
                ELSE IF t = Poller THEN "unborn"
                ELSE "idle"]

LoopNext ==
    \/ StartMonitoringCall(DbStarter)
    \/ StopMonitoring(Ui)
    \/ MonitorLoop(Poller)

\* the threads are scheduled, and sleep(30) and join(timeout=1) end
LoopFairness ==
    /\ WF_vars(MonitorLoop(Poller))
    /\ WF_vars(StopMonitoring(Ui))

SpecLoop == LoopHarnessInit /\ [][LoopNext]_vars /\ LoopFairness

(* ----------------------- monitor control harness ----------------------- *)
\* threads call start_monitoring and stop_monitoring on one DatabaseMonitor
\* in any order, with nothing serializing them, and the poll threads run

ControlInit ==
    /\ LoggerInit
    /\ max_entries = MaxCapacity
    /\ callbacks = <<OnActivity>>
    /\ LocalsInit
    /\ recent = <<>>
    /\ asked = 0
    /\ readAt = 0
    /\ MonitorInit
    /\ ServerInit
    /\ NoTlsFiles
    /\ LoopInit
    /\ GuiInit
    /\ WebInit
    /\ pc = [t \in Threads |-> IF t \in Pollers THEN "unborn" ELSE "idle"]

\* the caller goes on to call stop_monitoring
CallStop(t) ==
    /\ pc[t] = "idle"
    /\ pc' = [pc EXCEPT ![t] = "stop_monitoring"]
    /\ UNCHANGED <<logVars, monVars, loopVars, outsideLoop>>

\* stop_monitoring has returned to its caller
StopReturned(t) ==
    /\ pc[t] = "stopped"
    /\ pc' = [pc EXCEPT ![t] = "idle"]
    /\ UNCHANGED <<logVars, monVars, loopVars, outsideLoop>>

ControlNext ==
    \/ \E t \in Controllers :
          \/ StartMonitoring(t)
          \/ CallStop(t)
          \/ StopMonitoring(t)
          \/ StopReturned(t)
    \/ \E p \in Pollers : MonitorLoop(p)

SpecControl == ControlInit /\ [][ControlNext]_vars

(* ------------------------ the launcher, quitting ----------------------- *)
\* the background threads of the launcher while the window is closed with
\* Exit, quit_application taken step by step; the callbacks queued for the
\* window are left waiting

QuitNext ==
    \/ UiRun
    \/ UiRetryDatabase
    \/ UiQuitBegin
    \/ UiQuitDestroy
    \/ UiQuitExit
    \/ StartEnter(AsyncStarter) \/ StartServer(AsyncStarter) \/ AsyncStartQueues(AsyncStarter)
    \/ StartMonitoringCall(DbStarter) \/ DbStartQueues(DbStarter)
    \/ \E t \in Retriers : CheckConnectionCall(t) \/ RetryQueues(t)

SpecQuit == Init /\ [][QuitNext]_vars

(* ----------------------------- web session ----------------------------- *)
\* one browser session sends requests to main.py, one after another

LoginBodies == [username : Usernames, password : Passwords]

\* the application is up, with or without the TLS files
WebSessionInit ==
    /\ HarnessInit
    /\ callbacks = <<>>
    /\ max_entries = MaxCapacity

WebNext ==
    \/ Root
    \/ LoginPage
    \/ \E route \in PageRoutes : Page(route)
    \/ \E wellformed \in BOOLEAN, body \in LoginBodies, reachable \in BOOLEAN :
           Login(wellformed, body, reachable)
    \/ Logout
    \/ \E barcode \in {" ", "111"}, found \in BOOLEAN : GetPrice(barcode, found)
    \/ GetAppUrl

SpecWeb == WebSessionInit /\ [][WebNext]_vars

(* ------------------ the launcher, poll and manual retry ---------------- *)
\* the poll thread and the threads of Retry Connection, each going through
\* check_connection step by step; the window only takes the clicks

ChecksNext ==
    \/ UiRun
    \/ UiRetryDatabase
    \/ StartMonitoringCall(DbStarter) \/ DbStartQueues(DbStarter)
    \/ PollTest(Poller) \/ CheckConnection(Poller) \/ PollSleep(Poller)
    \/ \E t \in Retriers : CheckConnection(t) \/ RetryQueues(t)

SpecChecks == Init /\ [][ChecksNext]_vars

(* ============================== claims ================================= *)

\* the last n elements of s, for 0 <= n <= Len(s)
LastOf(s, n) == [i \in 1..n |-> s[Len(s) - n + i]]

\* how many times e occurs in s
Occurrences(s, e) == Cardinality({i \in 1..Len(s) : s[i] = e})

\* C1: with add_activity calls made one after another on a logger of
\* capacity C = max_entries, a get_recent(C) made once more than C calls
\* have been made returns exactly the entries of the last C calls, in call
\* order.
C1_RecentIsLastCalls ==
    (asked = max_entries /\ readAt > max_entries)
        => recent = LastOf(SubSeq(calls, 1, readAt), max_entries)

C1_Witness ==
    /\ asked = max_entries
    /\ readAt > max_entries
    /\ max_entries >= 2
    /\ Len(recent) = max_entries

\* C2: in every reachable state, the intermediate states of add_activity
\* included, the logger stores at most max_entries entries.
C2_LengthWithinCapacity == Len(activities) <= max_entries

\* C3: when producers call add_activity concurrently and fewer than
\* max_entries calls are made in total, then once all calls have returned
\* the log holds one entry per call, each exactly once, in the order the
\* insertions took effect.
C3_NoneLostInOrder ==
    (Quiet /\ Len(calls) < max_entries)
        => /\ activities = hist
           /\ Len(activities) = Len(calls)
           /\ \A i \in 1..Len(calls) : Occurrences(activities, calls[i]) = 1

C3_Witness ==
    /\ Quiet
    /\ Len(calls) = 2
    /\ Len(calls) < max_entries
    /\ hist # calls
    /\ activities = hist

\* the level of each logged entry and the failure message it carries
Carried(entry) == IF Len(MessageOf(entry)) >= 2 THEN MessageOf(entry)[2] ELSE ""
Logged == [i \in 1..Len(calls) |-> <<LevelOf(calls[i]), Carried(calls[i])>>]

\* the connected value of each check made so far
Connected == [i \in 1..Len(results) |-> results[i].connected]

\* one entry per change of the connected value along rs, starting from prev
RECURSIVE Transitions(_, _)
Transitions(rs, prev) ==
    IF rs = <<>> THEN <<>>
    ELSE LET r == Head(rs)
             here == IF r.connected = prev THEN <<>>
                     ELSE IF r.connected THEN << <<"SUCCESS", "">> >>
                     ELSE << <<"ERROR", r.message>> >>
         IN  here \o Transitions(Tail(rs), r.connected)

NoCheckRunning == \A t \in Checkers : pc[t] = "idle"

\* C4: for check_connection calls that do not overlap, the monitor has
\* logged exactly one entry per change of the connected value (the value
\* starts as not connected) and none for a check that repeats the previous
\* result: SUCCESS for a change to connected, ERROR carrying the failure
\* message for a change to not connected.
C4_OneEntryPerTransition ==
    NoCheckRunning => Logged = Transitions(results, FALSE)

C4_Witness ==
    /\ NoCheckRunning
    /\ Connected = <<TRUE, TRUE, TRUE, TRUE, TRUE>>
    /\ Len(calls) = 1

\* C5: on a fresh monitor, three checks that find the database not
\* connected followed by one that finds it connected append exactly two
\* entries: an ERROR, then a SUCCESS.
C5_FailThriceThenSucceed ==
    (NoCheckRunning /\ Connected = <<FALSE, FALSE, FALSE, TRUE>>)
        => /\ Len(calls) = 2
           /\ LevelOf(calls[1]) = "ERROR"
           /\ LevelOf(calls[2]) = "SUCCESS"

\* every start_server call made has returned True and none has been
\* followed by another one
AllStartsReturnedTrue ==
    \A t \in Starters : pc[t] = "started" /\ returned[t] = <<TRUE>>

\* C6: when two threads call start_server concurrently on one ServerManager,
\* exactly one server thread is spawned, and both calls return with
\* is_running true.
C6_OneServerForConcurrentStarts ==
    (starts = Cardinality(Starters) /\ AllStartsReturnedTrue)
        => (Len(servers) = 1 /\ is_running)

\* an ERROR entry of the server thread is in the log
ServerErrorLogged ==
    \E i \in 1..Len(calls) :
        LevelOf(calls[i]) = "ERROR" /\ MessageOf(calls[i])[1] = "Server error"

\* C7: when the server spawned by the one start_server call made has failed
\* during startup, the failure has been logged as an ERROR entry, and from
\* then on is_running stays false, get_urls returns (None, None) and no
\* other server is spawned.
C7_FailedStartStaysDown ==
    [][(starts = 1 /\ Len(servers) >= 1 /\ servers[1].state = "failed")
          => /\ ServerErrorLogged
             /\ ~is_running'
             /\ get_urls' = <<None, None>>
             /\ Len(servers') = 1]_vars

\* the colour the aggregate of the two status fields stands for
ColourOf(running, connected) ==
    CASE running /\ connected -> "green"
      [] running /\ ~connected -> "orange"
      [] ~running -> "red"

\* C8: the classification behind the tray icon is a function of is_running
\* and is_connected alone: green exactly when both are true, orange exactly
\* when running and not connected, red whenever not running; in every state
\* of the launcher create_status_icon gives that colour, and the icon the
\* tray shows is that colour of the two fields as they were when it was drawn.
C8_IconClassifiesStatus ==
    /\ create_status_icon = ColourOf(is_running, is_connected)
    /\ tray_icon.created => tray_icon.icon = ColourOf(drawn[1], drawn[2])

C8_Witness ==
    /\ tray_icon.created
    /\ drawn = <<TRUE, TRUE>>
    /\ tray_icon.icon = "green"
    /\ tray_icon.server = "Stopped"

\* C9: a start_server call made while is_running is true returns True at
\* once, spawns no server thread, appends no log entry and leaves every
\* ServerManager field as it was.
C9_StartWhileRunningIsNoOp ==
    [][\A t \in Starters :
          (pc[t] = "idle" /\ pc'[t] # "idle" /\ is_running)
              => /\ pc'[t] = "started"
                 /\ returned'[t] = <<TRUE>>
                 /\ UNCHANGED <<servers, server_thread, is_running, ssl_enabled,
                                local_ip, activities, calls, hist, received>>]_vars

C9_Witness ==
    /\ is_running
    /\ starts = 2
    /\ Len(servers) = 1
    /\ Len(calls) = 1
    /\ \A t \in Starters : pc[t] \in {"idle", "started"}
    /\ \E t \in Starters : pc[t] = "started" /\ returned[t] = <<TRUE>>

\* C10: is_running is monotonic: once it is true, no step of the launcher
\* (start_server, a failing server thread, check_connection, quitting with
\* stop_monitoring, the refreshes of the window) makes it false again.
C10_RunningIsMonotonic == [][is_running => is_running']_vars

C10_Witness ==
    /\ is_running
    /\ ServerErrorLogged
    /\ Len(results) >= 1
    /\ tray_icon.created /\ drawn[1]
    /\ exited

\* the scheme the stored ssl_enabled stands for
SchemeOf(tls) == IF tls THEN "https" ELSE "http"

\* C11: while is_running is false get_urls returns (None, None); while it is
\* true get_urls returns the local URL and the network URL made of the
\* stored ssl_enabled, port and local_ip. (get_urls is a function of the
\* state: it assigns nothing.)
C11_UrlsFollowStatus ==
    /\ ~is_running => get_urls = <<None, None>>
    /\ is_running =>
          /\ local_ip # None
          /\ get_urls = << <<SchemeOf(ssl_enabled), "localhost", 8000>>,
                           <<SchemeOf(ssl_enabled), local_ip[1], 8000>> >>

C11_Witness ==
    /\ is_running
    /\ ssl_enabled
    /\ get_urls[2] = <<"https", "192.168.1.20", 8000>>

\* the start entries of the log
StartEntries ==
    SelectSeq(calls, LAMBDA e : MessageOf(e)[1] = "Server started on")

\* C12: when neither TLS file exists, every server thread is launched with
\* no key file and no certificate file, ssl_enabled is false, and every URL
\* get_urls returns and every address in a start entry of the log is an
\* http:// one.
C12_NoTlsFilesMeansHttp ==
    NoTlsFiles =>
        /\ \A k \in DOMAIN servers :
              servers[k].ssl_keyfile = None /\ servers[k].ssl_certfile = None
        /\ ~ssl_enabled
        /\ \A i \in 1..2 : get_urls[i] # None => get_urls[i][1] = "http"
        /\ \A i \in 1..Len(StartEntries) : MessageOf(StartEntries[i])[2][1] = "http"

C12_Witness ==
    /\ NoTlsFiles
    /\ is_running
    /\ Len(servers) >= 1
    /\ Len(StartEntries) >= 1
    /\ get_urls[1] = <<"http", "localhost", 8000>>

\* the smaller of two numbers
Least(a, b) == IF a <= b THEN a ELSE b

\* C13: every get_recent(n) call, n >= 0, returns the last min(n, length)
\* entries of the log in insertion order (none for n = 0) and leaves the log
\* and the callback list as they are; what it returned is not altered by
\* later appends.
C13_RecentIsLastMin ==
    [][/\ (asked' # asked \/ readAt' # readAt \/ recent' # recent)
            => /\ recent' = LastOf(activities, Least(asked', Len(activities)))
               /\ UNCHANGED <<activities, callbacks>>
       /\ activities' # activities => recent' = recent]_vars

\* C14: an add_activity call that returns has invoked every registered
\* callback exactly once with its own entry; each invocation is made by a
\* call that is in its notification loop, past its append and its eviction,
\* with that call's entry; a callback has received nothing when it is
\* registered, so it gets entries of later calls only; and a callback that
\* raises neither stops the loop nor the return of the call.
C14_CallbacksGetEachEntryOnce ==
    [][/\ \A t \in Producers :
             (pc[t] = "notify" /\ pc'[t] = "idle") =>
                 \A i \in 1..Len(callbacks) :
                     Occurrences(received[callbacks[i].id], activity[t]) = 1
       /\ \A c \in DOMAIN received :
             received'[c] # received[c] =>
                 \E t \in Producers :
                     /\ pc[t] = "notify"
                     /\ received'[c] = Append(received[c], activity[t])
                     /\ Occurrences(hist, activity[t]) = 1
                     /\ c <= Len(callbacks)
       /\ callbacks' # callbacks =>
             /\ Len(callbacks') = Len(callbacks) + 1
             /\ SubSeq(callbacks', 1, Len(callbacks)) = callbacks
             /\ received[callbacks'[Len(callbacks')].id] = <<>>]_vars

C14_Witness ==
    /\ Quiet
    /\ Len(callbacks) = 2
    /\ callbacks[1].kind = "raises"
    /\ callbacks[2].kind = "takes"
    /\ Len(calls) = 3
    /\ received[1] = SubSeq(calls, 2, 3)
    /\ received[2] = SubSeq(calls, 3, 3)

\* thread t is inside check_connection
Checking(t) ==
    pc[t] \in {"probe", "compare", "log", "assign", "stamp",
               "except", "faillog", "failassign"}

\* the entries check_connection has logged: level and failure message
MonitorLogged ==
    LET mine(e) == MessageOf(e)[1] \in {"Database connection restored",
                                        "Database connection lost",
                                        "Database connection failed"}
        es == SelectSeq(calls, mine)
    IN  [i \in 1..Len(es) |-> <<LevelOf(es[i]), Carried(es[i])>>]

\* C15: the poll thread and a manual retry are never inside check_connection
\* at the same time, and once no check is running the monitor has logged
\* exactly one entry per change of the connected value along the checks in
\* the order they returned, is_connected being the value of the last one.
C15_ChecksAreSerialized ==
    /\ Cardinality({t \in {Poller} \cup Retriers : Checking(t)}) <= 1
    /\ (\A t \in {Poller} \cup Retriers : ~Checking(t)) =>
          /\ MonitorLogged = Transitions(results, FALSE)
          /\ results # <<>> => is_connected = results[Len(results)].connected

\* C16: when a check_connection call returns, made by the poll thread or by
\* a manual retry, its probe having returned or raised, is_connected is the
\* connected value the call returns and last_check is the time stored by
\* that call.
C16_ReturnLeavesResultStored ==
    [][\A t \in {Poller} \cup Retriers :
          (Checking(t) /\ pc'[t] = "checked") =>
              /\ is_connected' = results'[Len(results')].connected
              /\ last_check' = clock]_vars

\* stop_monitoring has cleared the flag of a monitor that start_monitoring
\* had started, and no start_monitoring call is still to come
StoppedWhileRunning ==
    /\ pc[Ui] \in {"join", "stopped"}
    /\ pc[DbStarter] = "monitoring"
    /\ ~monitoring

\* C17: once stop_monitoring has been called on a running monitor, with no
\* start_monitoring after it, the poll loop eventually ends; the loop test
\* that finds monitoring false ends the loop and no check is made after it;
\* and stop_monitoring returns, whether or not the loop has ended by then.
C17_StopEndsThePollLoop ==
    /\ StoppedWhileRunning ~> (pc[Poller] = "done")
    /\ [][/\ (pc[Poller] = "loop" /\ ~monitoring /\ pc'[Poller] # "loop")
                => pc'[Poller] = "done"
          /\ pc[Poller] = "done" => (pc'[Poller] = "done" /\ results' = results)]_vars
    /\ (pc[Ui] = "join") ~> (pc[Ui] = "stopped")

C17_Witness ==
    /\ StoppedWhileRunning
    /\ pc[Ui] = "stopped"
    /\ pc[Poller] = "done"
    /\ Len(results) = 1

\* what the widgets of the window show
Widgets ==
    <<server_status, db_status, local_url_label, network_url_label, activity_text>>

\* C18: every step that changes what a widget shows (the status labels, the
\* URL labels, the activity text) is a step of the thread running mainloop:
\* no other thread moves in it, so the server-start thread, the poll thread
\* and the monitor-start thread only queue callbacks with root.after.
C18_WidgetsChangeOnUiThread ==
    [][Widgets' # Widgets =>
          /\ pc[Ui] = "mainloop"
          /\ \A t \in Threads \ {Ui} : pc'[t] = pc[t]
          /\ servers' = servers]_vars

C18_Witness ==
    /\ server_status = "Running"
    /\ db_status = "Connected"
    /\ local_url_label # NotAvailable
    /\ network_url_label # NotAvailable
    /\ Len(activity_text) >= 3

\* the entries of the UI updates queued by on_activity, in queue order
QueuedEntries ==
    LET updates == SelectSeq(afterq, LAMBDA item : item[1] = "add_activity_to_gui")
    IN  [i \in 1..Len(updates) |-> updates[i][2]]

\* C19: the UI updates of the activity entries are queued, and so run, in
\* the order in which the entries are stored in the log: when a precedes b
\* in activities, the update of b is not queued before that of a.
C19_UiOrderIsLogOrder ==
    \A i, j \in 1..Len(activities) :
        \A m, n \in 1..Len(QueuedEntries) :
            (i < j /\ QueuedEntries[m] = activities[i] /\ QueuedEntries[n] = activities[j])
                => m < n

\* C20: a UI update that a background thread tries to queue once the root is
\* destroyed is dropped without an exception escaping in that thread: no
\* thread is ended by root.after raising, be it under the activity callback
\* or in the server-start, monitor-start or manual-retry thread.
C20_NoExceptionEscapes == \A t \in Threads : pc[t] # "raised"

\* C21: whatever logins, logouts and requests one session has made, /scanner,
\* /cart and /info serve the page exactly while a successful login has not
\* been followed by a logout and redirect to /login otherwise, and /api/price
\* and /api/app-url answer 401 in those other states.
C21_PagesOnlyWhileLoggedIn ==
    /\ response.route \in PageRoutes =>
           IF logged_in = "in"
           THEN response.status = 200
           ELSE response = Redirect(response.route, "/login")
    /\ response.route \in {"/api/price", "/api/app-url"} =>
           (logged_in # "in" <=> response.status = 401)

C21_Witness ==
    /\ logged_in = "out"
    /\ response.route \in PageRoutes
    /\ response.status = 302

\* a start entry is in the log, or has been handed to a subscriber
StartAnnounced ==
    \/ \E i \in 1..Len(activities) : MessageOf(activities[i])[1] = "Server started on"
    \/ \E c \in DOMAIN received : \E i \in 1..Len(received[c]) :
           MessageOf(received[c][i])[1] = "Server started on"

\* C22: in every state where the SUCCESS entry of a successful start_server
\* is in the log or is being delivered to a subscriber, is_running is
\* already true.
C22_AnnouncedMeansRunning == StartAnnounced => is_running

\* what the database label and the tray icon show is what the monitor and
\* the server manager hold
DbShown ==
    /\ db_status = (IF is_connected THEN "Connected" ELSE "Disconnected")
    /\ tray_icon.created => tray_icon.icon = create_status_icon

\* C23: with monitoring started and the window kept open, whenever a check
\* has been made and the database label differs from is_connected, the label
\* and the colour of the tray icon eventually show the current is_running
\* and is_connected; the refresh is the timer's, no log entry is needed.
C23_LabelFollowsMonitor ==
    (monitoring /\ Len(results) > 0 /\ ~DbShown) ~> DbShown

C23_Witness ==
    /\ Len(results) > 0
    /\ is_connected
    /\ db_status = "Connected"
    /\ tray_icon.created
    /\ tray_icon.icon = "green"

\* the step is a check of the poll thread in which test_connection raised
RaisedInPoll ==
    /\ pc[Poller] = "probe"
    /\ Len(results') = Len(results) + 1
    /\ results'[Len(results')].kind = "raise"

\* the poll thread has come back from a check that raised, monitoring is on
\* and the loop is still followed
BackFromRaise ==
    /\ pc[Poller] = "checked"
    /\ results[Len(results)].kind = "raise"
    /\ monitoring
    /\ Len(results) < PollBudget

\* C24: a check of the poll thread that raises neither ends the poll loop
\* nor leaves the poll thread: the thread comes back from it, sleeps, and
\* while monitoring is true enters the next check; and a raise met while
\* connected sets is_connected to false and logs exactly one ERROR entry.
C24_RaiseDoesNotEndThePollLoop ==
    /\ [][/\ RaisedInPoll => pc'[Poller] = "checked"
          /\ (pc[Poller] = "checked" /\ pc'[Poller] # "checked") => pc'[Poller] = "loop"
          /\ (pc[Poller] = "loop" /\ monitoring /\ pc'[Poller] # "loop")
                => pc'[Poller] = "probe"
          /\ (RaisedInPoll /\ is_connected)
                => /\ ~is_connected'
                   /\ Len(calls') = Len(calls) + 1
                   /\ LevelOf(calls'[Len(calls')]) = "ERROR"
                   /\ MessageOf(calls'[Len(calls')])[1] = "Database connection failed"]_vars
    /\ BackFromRaise ~> (pc[Poller] = "probe" \/ ~monitoring)

C24_Witness ==
    /\ Len(results) = 3
    /\ results[1].connected
    /\ results[2].kind = "raise"
    /\ ~is_connected
    /\ monitoring

\* the status fields of the DatabaseMonitor and of the ServerManager
MonitorFields == <<is_connected, last_check>>
ServerFields == <<is_running, ssl_enabled, local_ip>>

\* C25: is_connected and last_check change only in a step of a thread that
\* is inside check_connection, and is_running, ssl_enabled and local_ip only
\* in a step of a thread that is inside start_server; neither kind of step
\* changes the other object's fields, and the steps of mainloop (the refresh
\* of the labels, the tray icon) change none of them.
C25_StatusFieldsHaveOneWriter ==
    [][/\ MonitorFields' # MonitorFields =>
             /\ \E t \in Threads : pc[t] = "probe" /\ pc'[t] = "checked"
             /\ ServerFields' = ServerFields
       /\ ServerFields' # ServerFields =>
             /\ \E t \in Starters : pc[t] \in {"setup", "mark"} /\ pc'[t] # pc[t]
             /\ MonitorFields' = MonitorFields
       /\ (pc[Ui] = "mainloop" /\ <<afterq, guiVars>>' # <<afterq, guiVars>>
              /\ \A t \in Threads \ {Ui} : pc'[t] = pc[t]) =>
             /\ MonitorFields' = MonitorFields
             /\ ServerFields' = ServerFields]_vars

C25_Witness ==
    /\ is_running
    /\ is_connected
    /\ last_check # Never
    /\ server_status = "Running"
    /\ db_status = "Connected"
    /\ tray_icon.created

\* the poll threads that are executing _monitor_loop
PollLoops == {p \in Pollers : pc[p] \in {"loop", "probe", "checked"}}

\* C26: whatever start_monitoring and stop_monitoring calls have been made,
\* a stop followed by a start while the old loop sleeps and two racing starts
\* included, at most one poll thread is executing _monitor_loop and issuing
\* checks.
C26_AtMostOnePollLoop == Cardinality(PollLoops) <= 1

\* C27: at most one refresh timer of update_db_status is pending on the UI
\* thread at any time, however many times Retry Connection was clicked.
C27_OneRefreshTimer == timers <= 1

\* TLS material was passed to server thread k
PassedTls(k) == servers[k].ssl_keyfile # None \/ servers[k].ssl_certfile # None

\* C28: for every combination of the two TLS files, ssl_enabled is true
\* exactly when TLS material was passed to the server thread that was
\* spawned, and with only one of key.pem and cert.pem present the server
\* thread is given no TLS argument at all.
C28_ProtocolAgreesWithLaunch ==
    \A k \in DOMAIN servers :
        /\ ssl_enabled <=> PassedTls(k)
        /\ ~(key_pem /\ cert_pem) => ~PassedTls(k)

\* the Server and Database lines of the tray menu say what the server
\* manager and the monitor hold
MenuShown ==
    tray_icon.created =>
        /\ tray_icon.server = (IF is_running THEN "Running" ELSE "Stopped")
        /\ tray_icon.database = (IF is_connected THEN "Connected" ELSE "Disconnected")

\* C29: whenever is_running or is_connected has changed after the tray icon
\* was created, the Server and Database lines of the tray menu eventually
\* show the current values, as the colour of the icon does.
C29_TrayMenuFollowsStatus == ~MenuShown ~> MenuShown

\* start_server has returned False to _start_server_async
StartFailed ==
    /\ pc[AsyncStarter] \in {"started", "done"}
    /\ returned[AsyncStarter] = <<FALSE>>

\* C30: when start_server has returned False to _start_server_async, the
\* server status label eventually leaves Starting... and shows Failed.
C30_FailedStartIsShown == StartFailed ~> (server_status = "Failed")

====
